---------------------------- MODULE Spec2Model ----------------------------
(***************************************************************************)
(* traveltime: a single-shot command line tool.  main() loads its          *)
(* configuration from the environment, parses two "name,lat,lng"           *)
(* coordinates, asks the upstream geolocation service for the current      *)
(* position, picks origin and destination with findDirection, asks the     *)
(* upstream distance service for the two durations, computes the           *)
(* deviation and renders the result through a text/template.               *)
(*                                                                         *)
(* Strings are sequences of one-character strings.  float64 values are     *)
(* modelled bit-exactly (53-bit significand, round to nearest, ties to     *)
(* even) on top of a small natural-number arithmetic over 15-bit limbs,    *)
(* because the deviation is a truncation of a float64 expression and the   *)
(* rounding error decides the printed integer.                             *)
(***************************************************************************)
EXTENDS Integers, Sequences, FiniteSets, TLC

VARIABLES
    pc,             \* position of main(), or of the function under call
    env,            \* the process environment: [api, work, home, format]
    outTemplate,    \* parsed output template
    work, home,     \* parsed coordinates
    location,       \* locationResult.Location
    origin, destination,
    distanceResult, \* response of the distance matrix call
    result,         \* *TravelResult
    stdout,         \* text written to os.Stdout
    stderr,         \* diagnostic written by log.Fatal
    exitCode,       \* process exit status, -1 while running
    stages,         \* history: the pipeline stages entered so far
    args,           \* arguments of the function under call
    ret             \* its return value

vars == <<pc, env, outTemplate, work, home, location, origin, destination,
          distanceResult, result, stdout, stderr, exitCode, stages, args, ret>>

mainVars == <<env, outTemplate, work, home, location, origin, destination,
              distanceResult, result, stdout, stderr, exitCode, stages>>

\* no error
None == "none"
\* a variable not assigned yet, a nil pointer
Nil == [nil |-> TRUE]

-----------------------------------------------------------------------------
(* Natural numbers of any size: little-endian sequences of limbs in         *)
(* 0..LimbBase-1 without high zero limbs; <<>> is zero.                     *)

LimbBits == 16 - 1
LimbBase == 2^LimbBits

RECURSIVE BigNorm(_)
BigNorm(a) ==
    IF a = <<>> THEN <<>>
    ELSE IF a[Len(a)] = 0 THEN BigNorm(SubSeq(a, 1, Len(a) - 1))
    ELSE a

RECURSIVE BigFromInt(_)
BigFromInt(n) ==
    IF n = 0 THEN <<>> ELSE <<n % LimbBase>> \o BigFromInt(n \div LimbBase)

RECURSIVE BigToInt(_)
BigToInt(a) ==
    IF a = <<>> THEN 0 ELSE Head(a) + LimbBase * BigToInt(Tail(a))

LimbAt(a, i) == IF i <= Len(a) THEN a[i] ELSE 0

RECURSIVE BigAddFrom(_, _, _, _)
BigAddFrom(a, b, i, carry) ==
    IF i > Len(a) /\ i > Len(b)
    THEN (IF carry = 0 THEN <<>> ELSE <<carry>>)
    ELSE LET x == LimbAt(a, i) + LimbAt(b, i) + carry
         IN  <<x % LimbBase>> \o BigAddFrom(a, b, i + 1, x \div LimbBase)

BigAdd(a, b) == BigAddFrom(a, b, 1, 0)

\* a - b for a >= b
RECURSIVE BigSubFrom(_, _, _, _)
BigSubFrom(a, b, i, borrow) ==
    IF i > Len(a) THEN <<>>
    ELSE LET x == a[i] - LimbAt(b, i) - borrow
         IN  IF x < 0
             THEN <<x + LimbBase>> \o BigSubFrom(a, b, i + 1, 1)
             ELSE <<x>> \o BigSubFrom(a, b, i + 1, 0)

BigSub(a, b) == BigNorm(BigSubFrom(a, b, 1, 0))

RECURSIVE BigLessFrom(_, _, _)
BigLessFrom(a, b, i) ==
    IF i = 0 THEN FALSE
    ELSE IF a[i] # b[i] THEN a[i] < b[i]
    ELSE BigLessFrom(a, b, i - 1)

BigLess(a, b) ==
    IF Len(a) # Len(b) THEN Len(a) < Len(b) ELSE BigLessFrom(a, b, Len(a))

\* a * m for a limb-sized m
RECURSIVE BigMulSmallFrom(_, _, _, _)
BigMulSmallFrom(a, m, i, carry) ==
    IF i > Len(a) THEN BigFromInt(carry)
    ELSE LET x == a[i] * m + carry
         IN  <<x % LimbBase>> \o BigMulSmallFrom(a, m, i + 1, x \div LimbBase)

BigMulSmall(a, m) == BigNorm(BigMulSmallFrom(a, m, 1, 0))

RECURSIVE BigMul(_, _)
BigMul(a, b) ==
    IF a = <<>> \/ b = <<>> THEN <<>>
    ELSE LET high == BigMul(a, Tail(b))
         IN  BigAdd(BigMulSmall(a, Head(b)),
                    IF high = <<>> THEN <<>> ELSE <<0>> \o high)

\* quotient and remainder of a by a limb-sized d > 0
RECURSIVE BigDivModFrom(_, _, _, _)
BigDivModFrom(a, d, i, rem) ==
    IF i = 0 THEN [q |-> <<>>, r |-> rem]
    ELSE LET cur  == rem * LimbBase + a[i]
             rest == BigDivModFrom(a, d, i - 1, cur % d)
         IN  [q |-> Append(rest.q, cur \div d), r |-> rest.r]

BigDivModSmall(a, d) ==
    LET dm == BigDivModFrom(a, d, Len(a), 0)
    IN  [q |-> BigNorm(dm.q), r |-> dm.r]

Zeros(n) == [i \in 1..n |-> 0]

BigShl(a, k) ==
    IF a = <<>> THEN <<>>
    ELSE Zeros(k \div LimbBits) \o BigMulSmall(a, 2^(k % LimbBits))

\* floor(a / 2^k), and whether a nonzero bit was shifted out
BigShrSticky(a, k) ==
    LET limbs == k \div LimbBits
    IN  IF limbs >= Len(a)
        THEN [q |-> <<>>, sticky |-> a # <<>>]
        ELSE LET dm == BigDivModSmall(SubSeq(a, limbs + 1, Len(a)), 2^(k % LimbBits))
             IN  [q |-> dm.q,
                  sticky |-> dm.r # 0 \/ \E i \in 1..limbs : a[i] # 0]

RECURSIVE SmallBitLen(_)
SmallBitLen(n) == IF n = 0 THEN 0 ELSE 1 + SmallBitLen(n \div 2)

BitLen(a) ==
    IF a = <<>> THEN 0 ELSE LimbBits * (Len(a) - 1) + SmallBitLen(a[Len(a)])

BigOdd(a) == a # <<>> /\ a[1] % 2 = 1

-----------------------------------------------------------------------------
(* float64.  A finite value is (-1)^neg * mant * 2^exp with mant < 2^53;    *)
(* the exponent range is not modelled (no value gets near its ends).        *)

MantBits == 53

Fin(neg, mant, exp) == [kind |-> "fin", neg |-> neg /\ mant # <<>>, mant |-> mant, exp |-> exp]
Inf(neg) == [kind |-> "inf", neg |-> neg, mant |-> <<>>, exp |-> 0]
NaN == [kind |-> "nan", neg |-> FALSE, mant |-> <<>>, exp |-> 0]

\* the float64 nearest to mant * 2^exp (plus, when sticky, a positive amount
\* below one unit of mant, in which case mant has at least MantBits+2 bits)
RoundToFloat(neg, mant, exp, sticky) ==
    LET len == BitLen(mant)
    IN  IF len <= MantBits THEN Fin(neg, mant, exp)
        ELSE LET drop == len - MantBits
                 sh   == BigShrSticky(mant, drop - 1)
                 half == BigDivModSmall(sh.q, 2)
                 up   == half.r = 1 /\ (sh.sticky \/ sticky \/ BigOdd(half.q))
             IN  Fin(neg, IF up THEN BigAdd(half.q, <<1>>) ELSE half.q, exp + drop)

\* float64(n) for an int n of small magnitude: exact
FloatFromInt(n) == Fin(n < 0, BigFromInt(IF n < 0 THEN -n ELSE n), 0)

Min(a, b) == IF a < b THEN a ELSE b

\* x + y
FAdd(x, y) ==
    IF x.kind = "nan" \/ y.kind = "nan" THEN NaN
    ELSE IF x.kind = "inf"
         THEN (IF y.kind = "inf" /\ y.neg # x.neg THEN NaN ELSE x)
    ELSE IF y.kind = "inf" THEN y
    ELSE LET e  == Min(x.exp, y.exp)
             xm == BigShl(x.mant, x.exp - e)
             ym == BigShl(y.mant, y.exp - e)
         IN  IF x.neg = y.neg THEN RoundToFloat(x.neg, BigAdd(xm, ym), e, FALSE)
             ELSE IF BigLess(xm, ym) THEN RoundToFloat(y.neg, BigSub(ym, xm), e, FALSE)
             ELSE RoundToFloat(x.neg, BigSub(xm, ym), e, FALSE)

FNeg(x) == IF x.kind = "nan" THEN NaN ELSE [x EXCEPT !.neg = ~x.neg /\ (x.kind = "inf" \/ x.mant # <<>>)]

\* x - y
FSub(x, y) == FAdd(x, FNeg(y))

IsZero(x) == x.kind = "fin" /\ x.mant = <<>>

\* x * y
FMul(x, y) ==
    IF x.kind = "nan" \/ y.kind = "nan" THEN NaN
    ELSE IF x.kind = "inf" \/ y.kind = "inf"
         THEN (IF IsZero(x) \/ IsZero(y) THEN NaN ELSE Inf(x.neg # y.neg))
    ELSE RoundToFloat(x.neg # y.neg, BigMul(x.mant, y.mant), x.exp + y.exp, FALSE)

\* x / y; a finite nonzero y has a limb-sized significand (it is the float64
\* of a small integer)
FDiv(x, y) ==
    IF x.kind = "nan" \/ y.kind = "nan" THEN NaN
    ELSE IF x.kind = "inf"
         THEN (IF y.kind = "inf" THEN NaN ELSE Inf(x.neg # y.neg))
    ELSE IF y.kind = "inf" THEN Fin(FALSE, <<>>, 0)
    ELSE IF IsZero(y)
         THEN (IF IsZero(x) THEN NaN ELSE Inf(x.neg # y.neg))
    ELSE IF IsZero(x) THEN Fin(FALSE, <<>>, 0)
    ELSE LET d     == BigToInt(y.mant)
             shift == MantBits + 2 + SmallBitLen(d)
             dm    == BigDivModSmall(BigShl(x.mant, shift), d)
         IN  RoundToFloat(x.neg # y.neg, dm.q, x.exp - y.exp - shift, dm.r # 0)

\* the integer nearest to a finite x, ties to even
Trunc_Rounded(x) ==
    LET whole == IF x.exp >= 0 THEN [q |-> BigShl(x.mant, x.exp), sticky |-> FALSE]
                 ELSE BigShrSticky(x.mant, -x.exp - 1)
        half  == BigDivModSmall(whole.q, 2)
        mag   == IF x.exp >= 0 THEN whole.q
                 ELSE IF half.r = 1 /\ (whole.sticky \/ BigOdd(half.q))
                      THEN BigAdd(half.q, <<1>>)
                      ELSE half.q
    IN  [neg |-> x.neg /\ mag # <<>>, mag |-> mag]

\* the integer part of a finite x: [neg, mag] with mag a natural number
Trunc(x) ==
    LET mag == IF x.exp >= 0 THEN BigShl(x.mant, x.exp)
               ELSE BigShrSticky(x.mant, -x.exp).q
    IN  [neg |-> x.neg /\ mag # <<>>, mag |-> mag]

-----------------------------------------------------------------------------
(* Go int values: [neg, mag] with mag a natural number of any size, since   *)
(* the conversion of a non-finite float64 yields the ends of int64.         *)

IntFromSmall(n) == [neg |-> n < 0, mag |-> BigFromInt(IF n < 0 THEN -n ELSE n)]
IntToSmall(i) == IF i.neg THEN -BigToInt(i.mag) ELSE BigToInt(i.mag)

MinInt64 == [neg |-> TRUE, mag |-> BigShl(<<1>>, 63)]
MaxInt64 == [neg |-> FALSE, mag |-> BigSub(BigShl(<<1>>, 63), <<1>>)]

\* int(x) for a non-finite x is implementation-dependent: amd64 yields the
\* "integer indefinite" value MinInt64, arm64 and riscv64 saturate and differ
\* on NaN (0 and MaxInt64)
NonFiniteInts(x) ==
    IF x.kind = "nan" THEN {MinInt64, IntFromSmall(0), MaxInt64}
    ELSE IF x.neg THEN {MinInt64}
    ELSE {MinInt64, MaxInt64}

IntOutcomes(x) == IF x.kind = "fin" THEN {Trunc(x)} ELSE NonFiniteInts(x)

Digits == <<"0", "1", "2", "3", "4", "5", "6", "7", "8", "9">>

RECURSIVE BigDigits(_)
BigDigits(a) ==
    IF a = <<>> THEN <<>>
    ELSE LET dm == BigDivModSmall(a, 10)
         IN  Append(BigDigits(dm.q), Digits[dm.r + 1])

\* fmt "%d"
FormatInt(i) ==
    (IF i.neg THEN <<"-">> ELSE <<>>) \o (IF i.mag = <<>> THEN <<"0">> ELSE BigDigits(i.mag))

\* fmt "%+d"
FormatSigned(i) ==
    (IF i.neg THEN <<"-">> ELSE <<"+">>) \o (IF i.mag = <<>> THEN <<"0">> ELSE BigDigits(i.mag))

-----------------------------------------------------------------------------
(* time.Duration, in whole seconds: the distance matrix response carries    *)
(* its durations as integer seconds.                                        *)

SecondsPerMinute == 60

\* Duration.Seconds(): float64(sec) + float64(nsec)/1e9 with nsec = 0
Seconds(d) == FloatFromInt(d)

\* Duration.Minutes(): float64(min) + float64(nsec)/(60*1e9), where the
\* operands of the division are exact and their quotient is (d % 60)/60
Minutes(d) ==
    FAdd(FloatFromInt(d \div SecondsPerMinute),
         FDiv(FloatFromInt(d % SecondsPerMinute), FloatFromInt(SecondsPerMinute)))

Element(withTraffic, noTraffic) == [DurationInTraffic |-> withTraffic, Duration |-> noTraffic]
Response(elements) == [Rows |-> << [Elements |-> elements] >>]

getWithTrafficDuration(dr) == dr.Rows[1].Elements[1].DurationInTraffic

getNoTrafficeDuration(dr) == dr.Rows[1].Elements[1].Duration

getAbsoluteDeviation(dr) ==
    LET withTraffic == Minutes(dr.Rows[1].Elements[1].DurationInTraffic)
        noTraffic   == Minutes(dr.Rows[1].Elements[1].Duration)
    IN  FSub(withTraffic, noTraffic)

Hundred == 100

\* getRelativeDeviation with the two durations exchanged
getRelativeDeviation_Inverted(dr) ==
    LET withTraffic == Seconds(dr.Rows[1].Elements[1].DurationInTraffic)
        noTraffic   == Seconds(dr.Rows[1].Elements[1].Duration)
    IN  FSub(FMul(FDiv(FloatFromInt(Hundred), withTraffic), noTraffic), FloatFromInt(Hundred))

getRelativeDeviation(dr) ==
    LET withTraffic == Seconds(dr.Rows[1].Elements[1].DurationInTraffic)
        noTraffic   == Seconds(dr.Rows[1].Elements[1].Duration)
    IN  FSub(FMul(FDiv(FloatFromInt(Hundred), noTraffic), withTraffic), FloatFromInt(Hundred))

\* the Deviation values newDeviation can return: one, unless a conversion is
\* of a non-finite value
newDeviation(dr) ==
    { [Relative |-> FormatSigned(rel), Absolute |-> FormatSigned(abs)] :
        rel \in IntOutcomes(getRelativeDeviation(dr)),
        abs \in IntOutcomes(getAbsoluteDeviation(dr)) }

-----------------------------------------------------------------------------
(* Strings.                                                                 *)

\* strings.Count(s, c) for a one-character c
Count(s, c) == Cardinality({i \in 1..Len(s) : s[i] = c})

\* strings.Index(s, c) for a one-character c, counted from 1; 0 when absent
Index(s, c) ==
    IF \E i \in 1..Len(s) : s[i] = c
    THEN CHOOSE i \in 1..Len(s) : s[i] = c /\ \A j \in 1..(i - 1) : s[j] # c
    ELSE 0

\* strings.Cut(s, c)
Cut(s, c) ==
    LET i == Index(s, c)
    IN  IF i = 0 THEN [before |-> s, after |-> <<>>, found |-> FALSE]
        ELSE [before |-> SubSeq(s, 1, i - 1), after |-> SubSeq(s, i + 1, Len(s)), found |-> TRUE]

\* strings.Split(s, c)
RECURSIVE Split(_, _)
Split(s, c) ==
    LET cut == Cut(s, c)
    IN  IF cut.found THEN <<cut.before>> \o Split(cut.after, c) ELSE <<s>>

(* Decimal numbers m / 10^e, e >= 0, m not a multiple of 10 unless e = 0:   *)
(* the values of the coordinates.  The float64 nearest to the decimal is    *)
(* not modelled: distinct decimals of up to 15 digits are distinct float64. *)
RECURSIVE DecNorm(_, _)
DecNorm(m, e) ==
    IF e > 0 /\ m % 10 = 0 THEN DecNorm(m \div 10, e - 1) ELSE [m |-> m, e |-> e]

Dec(m, e) == DecNorm(m, e)

DigitValue(c) == CHOOSE d \in 0..9 : Digits[d + 1] = c
IsDigit(c) == \E d \in 0..9 : Digits[d + 1] = c

RECURSIVE DigitsValue(_)
DigitsValue(s) ==
    IF s = <<>> THEN 0 ELSE 10 * DigitsValue(SubSeq(s, 1, Len(s) - 1)) + DigitValue(s[Len(s)])

\* strconv.ParseFloat(s, 64) on the decimal syntax: an optional sign, digits
\* with at most one '.', at least one digit.  (Exponents, hexadecimal
\* mantissas, underscores and the names inf and nan need characters that no
\* input of the model contains together.)
ParseFloat(s) ==
    LET signed == s # <<>> /\ s[1] \in {"+", "-"}
        body   == IF signed THEN Tail(s) ELSE s
        point  == Cut(body, ".")
        digits == point.before \o point.after
        ok     == /\ digits # <<>>
                  /\ \A i \in 1..Len(digits) : IsDigit(digits[i])
        mag    == DigitsValue(digits)
    IN  IF ok
        THEN [ok |-> TRUE,
              val |-> Dec(IF signed /\ s[1] = "-" THEN -mag ELSE mag, Len(point.after))]
        ELSE [ok |-> FALSE, val |-> Dec(0, 0)]

LatLng(lat, lng) == [Lat |-> lat, Lng |-> lng]
ZeroLatLng == LatLng(Dec(0, 0), Dec(0, 0))

\* maps.ParseLatLng: split at ',', exactly two parts, each a float
ParseLatLng(s) ==
    LET l   == Split(s, ",")
        lat == ParseFloat(l[1])
        lng == ParseFloat(l[2])
    IN  IF Len(l) # 2 THEN [err |-> "maps: invalid LatLng", val |-> ZeroLatLng]
        ELSE IF ~lat.ok THEN [err |-> "strconv.ParseFloat", val |-> ZeroLatLng]
        ELSE IF ~lng.ok THEN [err |-> "strconv.ParseFloat", val |-> ZeroLatLng]
        ELSE [err |-> None, val |-> LatLng(lat.val, lng.val)]

LatLngName(latLng, name) == [LatLng |-> latLng, Name |-> name]
ZeroLatLngName == LatLngName(ZeroLatLng, <<>>)

\* parseLatLngName without the assignment of result.Name
parseLatLngName_NameNotSet(s) ==
    LET count  == Count(s, ",")
        cut    == Cut(s, ",")
        latLng == ParseLatLng(cut.after)
    IN  IF count # 2 THEN [err |-> "invalid format, must contain 2 ','", val |-> ZeroLatLngName]
        ELSE IF ~cut.found THEN [err |-> "failed to parse name", val |-> ZeroLatLngName]
        ELSE IF latLng.err # None THEN [err |-> latLng.err, val |-> ZeroLatLngName]
        ELSE [err |-> None, val |-> LatLngName(latLng.val, <<>>)]

\* parseLatLngName with an empty name treated as a failed cut
parseLatLngName_EmptyNameRejected(s) ==
    LET count  == Count(s, ",")
        cut    == Cut(s, ",")
        latLng == ParseLatLng(cut.after)
    IN  IF count # 2 THEN [err |-> "invalid format, must contain 2 ','", val |-> ZeroLatLngName]
        ELSE IF ~cut.found \/ cut.before = <<>>
             THEN [err |-> "failed to parse name", val |-> ZeroLatLngName]
        ELSE IF latLng.err # None THEN [err |-> latLng.err, val |-> ZeroLatLngName]
        ELSE [err |-> None, val |-> LatLngName(latLng.val, cut.before)]

parseLatLngName(s) ==
    LET count  == Count(s, ",")
        cut    == Cut(s, ",")
        latLng == ParseLatLng(cut.after)
    IN  IF count # 2 THEN [err |-> "invalid format, must contain 2 ','", val |-> ZeroLatLngName]
        ELSE IF ~cut.found THEN [err |-> "failed to parse name", val |-> ZeroLatLngName]
        ELSE IF latLng.err # None THEN [err |-> latLng.err, val |-> ZeroLatLngName]
        ELSE [err |-> None, val |-> LatLngName(latLng.val, cut.before)]

-----------------------------------------------------------------------------
(* main() at rest: the state of the variables of main() while a single      *)
(* function is called on its own.                                           *)

NoEnv == [api |-> <<>>, work |-> <<>>, home |-> <<>>, format |-> <<>>]

MainIdle ==
    /\ env = NoEnv
    /\ outTemplate = Nil
    /\ work = Nil /\ home = Nil
    /\ location = Nil
    /\ origin = Nil /\ destination = Nil
    /\ distanceResult = Nil
    /\ result = Nil
    /\ stdout = <<>>
    /\ stderr = Nil
    /\ exitCode = -1
    /\ stages = <<>>

-----------------------------------------------------------------------------
(* parseLatLngName on every string over a small alphabet, and on the        *)
(* documented examples.                                                     *)

MaxLen == 7
Alphabet == {"h", ",", "1", ".", "-"}

Strings(n) == UNION {[1..k -> Alphabet] : k \in 0..n}

HomeExample == <<"h","o","m","e",",","5","2",".","5",",","1","3",".","4">>
BadExample == <<"b","a","d",",","1",",","2",",","3">>
NotANumberExample == <<"h","o","m","e",",","n","o","t","a","n","u","m","b","e","r",",","1","3",".","4">>
Examples == {HomeExample, BadExample, NotANumberExample}

InitParse ==
    /\ pc = "parseLatLngName"
    /\ args \in {<<s>> : s \in Strings(MaxLen) \cup Examples}
    /\ ret = Nil
    /\ MainIdle

CallParse ==
    /\ pc = "parseLatLngName"
    /\ ret' = parseLatLngName(args[1])
    /\ pc' = "returned"
    /\ UNCHANGED <<args, mainVars>>

SpecParse == InitParse /\ [][CallParse]_vars

ParseReturned == pc = "returned" /\ Len(args) = 1

CommaAt(s) == {i \in 1..Len(s) : s[i] = ","}
FirstComma(s) == CHOOSE i \in CommaAt(s) : \A j \in CommaAt(s) : i <= j
LastComma(s) == CHOOSE i \in CommaAt(s) : \A j \in CommaAt(s) : j <= i
NameSegment(s) == SubSeq(s, 1, FirstComma(s) - 1)
LatSegment(s) == SubSeq(s, FirstComma(s) + 1, LastComma(s) - 1)
LngSegment(s) == SubSeq(s, LastComma(s) + 1, Len(s))
WellFormed(s) ==
    /\ Cardinality(CommaAt(s)) = 2
    /\ ParseFloat(LatSegment(s)).ok
    /\ ParseFloat(LngSegment(s)).ok

\* C4: parseLatLngName returns an error for every input that has not exactly
\* two commas or whose two segments after the first comma are not both
\* parseable floats; for every other input it returns the text before the
\* first comma as Name and the two parsed numbers as latitude and longitude,
\* in that order ("home,52.5,13.4" gives home, 52.5, 13.4).
C4_ParseContract ==
    ParseReturned =>
        LET s == args[1]
        IN  /\ ~WellFormed(s) => ret.err # None /\ ret.val = ZeroLatLngName
            /\ WellFormed(s) =>
                 /\ ret.err = None
                 /\ ret.val.Name = NameSegment(s)
                 /\ ret.val.LatLng.Lat = ParseFloat(LatSegment(s)).val
                 /\ ret.val.LatLng.Lng = ParseFloat(LngSegment(s)).val
            /\ s = HomeExample =>
                 ret = [err |-> None,
                        val |-> LatLngName(LatLng([m |-> 525, e |-> 1], [m |-> 134, e |-> 1]),
                                           <<"h", "o", "m", "e">>)]
            /\ s \in {BadExample, NotANumberExample} => ret.err # None

C4_Witness ==
    /\ ParseReturned
    /\ args[1] = HomeExample
    /\ ret.err = None
    /\ ret.val.LatLng.Lat # ret.val.LatLng.Lng

EmptyName(s) == Cardinality(CommaAt(s)) = 2 /\ s[1] = ","

\* C5 as stated: an input whose name segment is empty fails with a parse error,
\* and no returned point has an empty Name.
C5_EmptyNameRejected ==
    ParseReturned =>
        /\ EmptyName(args[1]) => ret.err # None
        /\ ret.err = None => ret.val.Name # <<>>

\* C5 as amended: an empty name segment is accepted.  An input ",<lat>,<lng>"
\* with two parseable numbers returns, without error, a point whose Name is
\* empty; the "failed to parse name" error is never returned.
C5_EmptyNameAccepted ==
    ParseReturned =>
        /\ EmptyName(args[1]) /\ WellFormed(args[1]) =>
             ret.err = None /\ ret.val.Name = <<>>
        /\ ret.err # "failed to parse name"

C5_Witness ==
    /\ ParseReturned
    /\ EmptyName(args[1])
    /\ ret.err = None
    /\ ret.val.Name = <<>>

-----------------------------------------------------------------------------
(* findDirection.                                                           *)

Pow10(k) == 10^k
Max(a, b) == IF a < b THEN b ELSE a

\* numerators of a and b over their common denominator
DecAligned(a, b) ==
    LET e == Max(a.e, b.e)
    IN  [a |-> a.m * Pow10(e - a.e), b |-> b.m * Pow10(e - b.e), e |-> e]

DecSub(a, b) == LET al == DecAligned(a, b) IN Dec(al.a - al.b, al.e)
DecAdd(a, b) == LET al == DecAligned(a, b) IN Dec(al.a + al.b, al.e)
DecMul(a, b) == Dec(a.m * b.m, a.e + b.e)
DecLess(a, b) == LET al == DecAligned(a, b) IN al.a < al.b

\* math.Pow(x, 2)
Square(x) == DecMul(x, x)

(* math.Sqrt(x), kept as the surd: the square root is strictly increasing,   *)
(* so two distances compare as their radicands do.  The coordinates of the  *)
(* model are multiples of 1/2, for which the float64 differences, squares   *)
(* and sums are exact and distinct radicands have distinct float64 roots.   *)
Sqrt(x) == [sqrt |-> x]
SqrtLess(a, b) == DecLess(a.sqrt, b.sqrt)

calculateDistance(point1, point2) ==
    Sqrt(DecAdd(Square(DecSub(point2.Lat, point1.Lat)),
                Square(DecSub(point2.Lng, point1.Lng))))

\* findDirection with the comparison turned around
findDirection_Greater(pointA, pointB, loc) ==
    LET distance1 == calculateDistance(pointA.LatLng, loc)
        distance2 == calculateDistance(pointB.LatLng, loc)
    IN  IF SqrtLess(distance2, distance1)
        THEN [origin |-> pointA, destination |-> pointB]
        ELSE [origin |-> pointB, destination |-> pointA]

\* findDirection with distance1 <= distance2
findDirection_LessOrEqual(pointA, pointB, loc) ==
    LET distance1 == calculateDistance(pointA.LatLng, loc)
        distance2 == calculateDistance(pointB.LatLng, loc)
    IN  IF ~SqrtLess(distance2, distance1)
        THEN [origin |-> pointA, destination |-> pointB]
        ELSE [origin |-> pointB, destination |-> pointA]

findDirection(pointA, pointB, loc) ==
    LET distance1 == calculateDistance(pointA.LatLng, loc)
        distance2 == calculateDistance(pointB.LatLng, loc)
    IN  IF SqrtLess(distance1, distance2)
        THEN [origin |-> pointA, destination |-> pointB]
        ELSE [origin |-> pointB, destination |-> pointA]

MaxCoord == 2

\* k/2 as a decimal
Half(k) == Dec(5 * k, 1)
Coords == {Half(k) : k \in -MaxCoord..MaxCoord}
Points == {LatLng(lat, lng) : lat \in Coords, lng \in Coords}

WorkName == <<"w", "o", "r", "k">>
HomeName == <<"h", "o", "m", "e">>

\* pointA = (0,0), pointB = (10,10), current = (1,1)
DirectionExample ==
    << LatLngName(LatLng(Dec(0, 0), Dec(0, 0)), WorkName),
       LatLngName(LatLng(Dec(10, 0), Dec(10, 0)), HomeName),
       LatLng(Dec(1, 0), Dec(1, 0)) >>

InitDirection ==
    /\ pc = "findDirection"
    /\ args \in {<<LatLngName(a, WorkName), LatLngName(b, HomeName), l>> :
                    a \in Points, b \in Points, l \in Points} \cup {DirectionExample}
    /\ ret = Nil
    /\ MainIdle

CallDirection ==
    /\ pc = "findDirection"
    /\ ret' = findDirection(args[1], args[2], args[3])
    /\ pc' = "returned"
    /\ UNCHANGED <<args, mainVars>>

SpecDirection == InitDirection /\ [][CallDirection]_vars

DirectionReturned == pc = "returned" /\ Len(args) = 3

\* twice a coordinate, an integer for the coordinates of the model
Twice(d) == (2 * d.m) \div Pow10(d.e)

\* four times the squared Euclidean distance
SquaredDistance(p, l) ==
    (Twice(p.Lat) - Twice(l.Lat)) * (Twice(p.Lat) - Twice(l.Lat))
        + (Twice(p.Lng) - Twice(l.Lng)) * (Twice(p.Lng) - Twice(l.Lng))

\* C1: when the distances from the current location to the two candidates
\* differ, findDirection returns the strictly nearer candidate as origin and
\* the other as destination; the returned pair is always the two arguments,
\* each used once.
C1_NearerIsOrigin ==
    DirectionReturned =>
        LET pointA == args[1]
            pointB == args[2]
            dA     == SquaredDistance(pointA.LatLng, args[3])
            dB     == SquaredDistance(pointB.LatLng, args[3])
        IN  /\ dA < dB => ret.origin = pointA /\ ret.destination = pointB
            /\ dB < dA => ret.origin = pointB /\ ret.destination = pointA
            /\ \/ ret.origin = pointA /\ ret.destination = pointB
               \/ ret.origin = pointB /\ ret.destination = pointA
            /\ args = DirectionExample => ret.origin = pointA /\ ret.destination = pointB

C1_Witness ==
    /\ DirectionReturned
    /\ SquaredDistance(args[1].LatLng, args[3]) < SquaredDistance(args[2].LatLng, args[3])
    /\ args[1].LatLng # args[3]
    /\ ret.origin = args[1]

Tie == SquaredDistance(args[1].LatLng, args[3]) = SquaredDistance(args[2].LatLng, args[3])

\* C2 as stated: when both distances are exactly equal, findDirection returns
\* the first argument pointA as origin and pointB as destination.
C2_TieFirstArgument ==
    DirectionReturned /\ Tie => ret.origin = args[1] /\ ret.destination = args[2]

\* C2 as amended: when both distances are exactly equal, findDirection returns
\* the second argument pointB as origin and the first argument pointA as
\* destination.
C2_TieSecondArgument ==
    DirectionReturned /\ Tie => ret.origin = args[2] /\ ret.destination = args[1]

C2_Witness ==
    /\ DirectionReturned
    /\ Tie
    /\ args[1].LatLng # args[2].LatLng
    /\ ret.origin = args[2]

-----------------------------------------------------------------------------
(* newDeviation on every pair of durations of up to MaxDuration seconds,    *)
(* and on the documented pair of 110 and 100 minutes.                       *)

MaxDuration == 70
Durations == 0..MaxDuration \cup {6000, 6600}

InitDeviation ==
    /\ pc = "newDeviation"
    /\ args \in {<<Response(<<Element(w, n)>>)>> : w \in Durations, n \in Durations}
    /\ ret = Nil
    /\ MainIdle

CallDeviation ==
    /\ pc = "newDeviation"
    /\ ret' \in newDeviation(args[1])
    /\ pc' = "returned"
    /\ UNCHANGED <<args, mainVars>>

SpecDeviation == InitDeviation /\ [][CallDeviation]_vars

DeviationReturned == pc = "returned" /\ Len(args) = 1 /\ "Rows" \in DOMAIN args[1]

WithTrafficSeconds == args[1].Rows[1].Elements[1].DurationInTraffic
NoTrafficSeconds == args[1].Rows[1].Elements[1].Duration

RECURSIVE NatDigits(_)
NatDigits(n) ==
    IF n < 10 THEN <<Digits[n + 1]>> ELSE Append(NatDigits(n \div 10), Digits[(n % 10) + 1])

\* the decimal integer k with an explicit sign
Signed(k) == IF k < 0 THEN <<"-">> \o NatDigits(-k) ELSE <<"+">> \o NatDigits(k)

Abs(k) == IF k < 0 THEN -k ELSE k
Sign(k) == IF k < 0 THEN -1 ELSE IF k > 0 THEN 1 ELSE 0

\* a/b for b > 0: truncated toward zero, and rounded to the nearest integer
\* with ties to even
TruncDiv(a, b) == Sign(a) * (Abs(a) \div b)
RoundDiv(a, b) ==
    LET q == a \div b
        r == a % b
    IN  IF 2 * r < b THEN q
        ELSE IF 2 * r > b THEN q + 1
        ELSE IF q % 2 = 0 THEN q ELSE q + 1

\* str prints the truncation of the float64 image of a/b: the truncation of a/b, or,
\* when a/b is a nonzero integer that the float64 expression falls short of,
\* the integer one nearer to zero
TruncatedFloat(str, a, b) ==
    \/ str = Signed(TruncDiv(a, b))
    \/ a % b = 0 /\ a # 0 /\ str = Signed(TruncDiv(a, b) - Sign(a))

\* C6 as stated: Deviation.Absolute is withTraffic.minutes -
\* withoutTraffic.minutes rounded to the nearest integer (half to even), with
\* an explicit sign.
C6_AbsoluteRounded ==
    DeviationReturned =>
        ret.Absolute = Signed(RoundDiv(WithTrafficSeconds - NoTrafficSeconds, SecondsPerMinute))

\* C6 as amended: Deviation.Absolute is the float64 difference
\* withTraffic.Minutes() - withoutTraffic.Minutes() truncated toward zero, not
\* rounded, as a decimal integer with an explicit sign.  It is the difference
\* in whole minutes truncated toward zero, except that a difference of a
\* nonzero whole number of minutes may come out one nearer to zero (61 s
\* against 1 s gives "+0"); 6600 s against 6000 s gives "+10", 45 s against
\* 0 s gives "+0".
C6_AbsoluteTruncated ==
    DeviationReturned =>
        LET w == WithTrafficSeconds
            n == NoTrafficSeconds
        IN  /\ TruncatedFloat(ret.Absolute, w - n, SecondsPerMinute)
            /\ w = 6600 /\ n = 6000 => ret.Absolute = <<"+", "1", "0">>
            /\ w = 45 /\ n = 0 => ret.Absolute = <<"+", "0">>
            /\ w = 1 /\ n = 61 => ret.Absolute = <<"+", "0">>
            /\ w = 0 /\ n = 61 => ret.Absolute = <<"-", "1">>

C6_Witness ==
    /\ DeviationReturned
    /\ WithTrafficSeconds = 45 /\ NoTrafficSeconds = 0
    /\ ret.Absolute = <<"+", "0">>

\* C7 as stated: for withoutTraffic.seconds > 0, Deviation.Relative is
\* (100 / withoutTraffic.seconds * withTraffic.seconds) - 100 rounded to the
\* nearest integer, with an explicit sign.
C7_RelativeRounded ==
    DeviationReturned /\ NoTrafficSeconds > 0 =>
        ret.Relative = Signed(RoundDiv(Hundred * WithTrafficSeconds - Hundred * NoTrafficSeconds,
                                       NoTrafficSeconds))

\* C7 as amended: for withoutTraffic.seconds > 0, Deviation.Relative is the
\* float64 value (100 / withoutTraffic.seconds * withTraffic.seconds) - 100
\* truncated toward zero, not rounded, as a decimal integer with an explicit
\* sign.  It is the exact percentage truncated toward zero, except that a
\* nonzero whole percentage may come out one nearer to zero (11 s against
\* 22 s gives "-49"); 6600 s against 6000 s gives "+10", 5 s against 3 s
\* gives "+66".
C7_RelativeTruncated ==
    DeviationReturned /\ NoTrafficSeconds > 0 =>
        LET w == WithTrafficSeconds
            n == NoTrafficSeconds
            a == Hundred * w - Hundred * n
        IN  /\ TruncatedFloat(ret.Relative, a, n)
            /\ w = 6600 /\ n = 6000 => ret.Relative = <<"+", "1", "0">>
            /\ w = 5 /\ n = 3 => ret.Relative = <<"+", "6", "6">>
            /\ w = 11 /\ n = 22 => ret.Relative = <<"-", "4", "9">>
            /\ w = 11 /\ n = 20 => ret.Relative = <<"-", "4", "5">>

C7_Witness ==
    /\ DeviationReturned
    /\ WithTrafficSeconds = 5 /\ NoTrafficSeconds = 3
    /\ ret.Relative = <<"+", "6", "6">>

-----------------------------------------------------------------------------
(* text/template, for the templates of the model: text and field actions    *)
(* "{{ .A.B }}".  Pipelines, functions, variables, control structures, trim *)
(* markers and comments are outside the model, and so is the printing of    *)
(* values that are neither strings nor ints.                                *)

\* the default format with the relative deviation in place of the absolute one
defaultFormat_Relative ==
    << "{", "{", " ", ".", "O", "r", "i", "g", "i", "n", ".", "N", "a", "m",
       "e", " ", "}", "}", ":", " ", "{", "{", " ", ".", "W", "i", "t", "h",
       "T", "r", "a", "f", "f", "i", "c", " ", "}", "}", " ", "{", "{", " ",
       ".", "D", "e", "v", "i", "a", "t", "i", "o", "n", ".", "R", "e", "l",
       "a", "t", "i", "v", "e", " ", "}", "}", "m", "i", "n" >>

defaultFormat ==
    << "{", "{", " ", ".", "O", "r", "i", "g", "i", "n", ".", "N", "a", "m",
       "e", " ", "}", "}", ":", " ", "{", "{", " ", ".", "W", "i", "t", "h",
       "T", "r", "a", "f", "f", "i", "c", " ", "}", "}", " ", "{", "{", " ",
       ".", "D", "e", "v", "i", "a", "t", "i", "o", "n", ".", "A", "b", "s",
       "o", "l", "u", "t", "e", " ", "}", "}", "m", "i", "n" >>

\* the first index at which "{{" (open) or "}}" begins in s, 0 when absent
DelimIndex(s, c) ==
    IF \E i \in 1..(Len(s) - 1) : s[i] = c /\ s[i + 1] = c
    THEN CHOOSE i \in 1..(Len(s) - 1) :
            /\ s[i] = c /\ s[i + 1] = c
            /\ \A j \in 1..(i - 1) : ~(s[j] = c /\ s[j + 1] = c)
    ELSE 0

RECURSIVE TrimLeft(_)
TrimLeft(s) == IF s # <<>> /\ Head(s) = " " THEN TrimLeft(Tail(s)) ELSE s

RECURSIVE TrimRight(_)
TrimRight(s) ==
    IF s # <<>> /\ s[Len(s)] = " " THEN TrimRight(SubSeq(s, 1, Len(s) - 1)) ELSE s

Letters ==
    {"A", "D", "L", "N", "O", "R", "T", "W",
     "a", "b", "c", "d", "e", "f", "g", "h", "i", "l", "m", "n", "o", "p", "r",
     "s", "t", "u", "v", "x"}

IsIdentifier(s) == s # <<>> /\ \A i \in 1..Len(s) : s[i] \in Letters

\* the field chain of an action ".A.B": its identifiers
ParseAction(body) ==
    LET trimmed == TrimRight(TrimLeft(body))
        chain   == IF trimmed # <<>> /\ Head(trimmed) = "." THEN Split(Tail(trimmed), ".") ELSE <<>>
    IN  IF chain # <<>> /\ \A i \in 1..Len(chain) : IsIdentifier(chain[i])
        THEN [err |-> None, node |-> [kind |-> "field", ident |-> chain]]
        ELSE [err |-> "template: bad action", node |-> None]

TextNode(text) == IF text = <<>> THEN <<>> ELSE << [kind |-> "text", text |-> text] >>

\* template.New("output").Parse(src): the list of nodes, or an error
RECURSIVE ParseTemplate(_)
ParseTemplate(src) ==
    LET open == DelimIndex(src, "{")
    IN  IF open = 0 THEN [err |-> None, tree |-> TextNode(src)]
        ELSE LET inner == SubSeq(src, open + 2, Len(src))
                 close == DelimIndex(inner, "}")
                 act   == ParseAction(SubSeq(inner, 1, close - 1))
                 rest  == ParseTemplate(SubSeq(inner, close + 2, Len(inner)))
             IN  IF close = 0 THEN [err |-> "template: unclosed action", tree |-> <<>>]
                 ELSE IF act.err # None THEN [err |-> act.err, tree |-> <<>>]
                 ELSE IF rest.err # None THEN rest
                 ELSE [err |-> None,
                       tree |-> TextNode(SubSeq(src, 1, open - 1)) \o <<act.node>> \o rest.tree]

\* values seen by the template
StructValue(fields) == [kind |-> "struct", fields |-> fields]
StringValue(str) == [kind |-> "string", val |-> str]
IntValue(i) == [kind |-> "int", val |-> i]
FloatValue(d) == [kind |-> "float", val |-> d]

LatLngValue(l) ==
    StructValue((<<"L", "a", "t">> :> FloatValue(l.Lat)) @@ (<<"L", "n", "g">> :> FloatValue(l.Lng)))

\* LatLngName embeds maps.LatLng: its fields are promoted
LatLngNameValue(p) ==
    StructValue((<<"N", "a", "m", "e">> :> StringValue(p.Name))
                @@ (<<"L", "a", "t", "L", "n", "g">> :> LatLngValue(p.LatLng))
                @@ LatLngValue(p.LatLng).fields)

DeviationValue(d) ==
    StructValue((<<"R", "e", "l", "a", "t", "i", "v", "e">> :> StringValue(d.Relative))
                @@ (<<"A", "b", "s", "o", "l", "u", "t", "e">> :> StringValue(d.Absolute)))

TravelResultValue(r) ==
    StructValue((<<"O", "r", "i", "g", "i", "n">> :> LatLngNameValue(r.Origin))
                @@ (<<"D", "e", "s", "t", "i", "n", "a", "t", "i", "o", "n">> :> LatLngNameValue(r.Destination))
                @@ (<<"W", "i", "t", "h", "T", "r", "a", "f", "f", "i", "c">> :> IntValue(r.WithTraffic))
                @@ (<<"N", "o", "T", "r", "a", "f", "f", "i", "c">> :> IntValue(r.NoTraffic))
                @@ (<<"D", "e", "v", "i", "a", "t", "i", "o", "n">> :> DeviationValue(r.Deviation)))

\* the value of a field chain on v
RECURSIVE EvalField(_, _)
EvalField(v, ident) ==
    IF ident = <<>> THEN [err |-> None, val |-> v]
    ELSE IF v.kind = "struct" /\ Head(ident) \in DOMAIN v.fields
         THEN EvalField(v.fields[Head(ident)], Tail(ident))
    ELSE [err |-> "template: can't evaluate field", val |-> None]

\* fmt.Fprint of a string or an int
PrintValue(v) ==
    CASE v.kind = "string" -> v.val
      [] v.kind = "int" -> FormatInt(v.val)

\* Template.Execute(w, data): the nodes are written to w one after the other;
\* an error stops the execution and leaves what was written before it
RECURSIVE Execute(_, _, _)
Execute(tree, data, written) ==
    IF tree = <<>> THEN [err |-> None, out |-> written]
    ELSE LET node == Head(tree)
             val  == EvalField(data, node.ident)
         IN  IF node.kind = "text" THEN Execute(Tail(tree), data, written \o node.text)
             ELSE IF val.err # None THEN [err |-> val.err, out |-> written]
             ELSE Execute(Tail(tree), data, written \o PrintValue(val.val))

TravelResult(orig, dest, withTraffic, noTraffic, deviation) ==
    [Origin |-> orig, Destination |-> dest, WithTraffic |-> withTraffic,
     NoTraffic |-> noTraffic, Deviation |-> deviation]

-----------------------------------------------------------------------------
(* The default template executed on a range of results, as the test of the  *)
(* repository does for one.                                                 *)

MaxMinutes == 12

RenderNames == {<<>>, HomeName, WorkName}
RenderMinutes == 0..MaxMinutes \cup {100, 110}
RenderDeviations == {<<"+", "1", "0">>, <<"-", "2">>, <<"+", "1", "0", "%">>}

InitRender ==
    /\ pc = "Execute"
    /\ args \in {<<TravelResult(LatLngName(ZeroLatLng, o), LatLngName(ZeroLatLng, d),
                                IntFromSmall(w), IntFromSmall(n),
                                [Relative |-> rel, Absolute |-> abs])>> :
                    o \in RenderNames, d \in {HomeName, WorkName},
                    w \in RenderMinutes, n \in {0, 100},
                    rel \in RenderDeviations, abs \in RenderDeviations}
    /\ ret = Nil
    /\ MainIdle

CallExecute ==
    /\ pc = "Execute"
    /\ LET tmpl == ParseTemplate(defaultFormat)
       IN  ret' = IF tmpl.err # None THEN [err |-> tmpl.err, out |-> <<>>]
                  ELSE Execute(tmpl.tree, TravelResultValue(args[1]), <<>>)
    /\ pc' = "returned"
    /\ UNCHANGED <<args, mainVars>>

SpecRender == InitRender /\ [][CallExecute]_vars

RenderReturned == pc = "returned" /\ Len(args) = 1 /\ "Origin" \in DOMAIN args[1]

\* C8: the default template renders any TravelResult as exactly
\* "<Origin.Name>: <WithTraffic> <Deviation.Absolute>min"; Origin.Name "home",
\* WithTraffic 110 and Deviation.Absolute "+10" render as "home: 110 +10min".
C8_DefaultRendering ==
    RenderReturned =>
        LET r == args[1]
        IN  /\ ret.err = None
            /\ ret.out = r.Origin.Name \o <<":", " ">> \o NatDigits(IntToSmall(r.WithTraffic))
                            \o <<" ">> \o r.Deviation.Absolute \o <<"m", "i", "n">>
            /\ r.Origin.Name = HomeName /\ IntToSmall(r.WithTraffic) = 110
                    /\ r.Deviation.Absolute = <<"+", "1", "0">>
                 => ret.out = <<"h", "o", "m", "e", ":", " ", "1", "1", "0", " ", "+", "1", "0", "m", "i", "n">>

C8_Witness ==
    /\ RenderReturned
    /\ args[1].Origin.Name = HomeName
    /\ args[1].Destination.Name = WorkName
    /\ IntToSmall(args[1].WithTraffic) = 110
    /\ IntToSmall(args[1].NoTraffic) = 100
    /\ args[1].Deviation = [Relative |-> <<"+", "1", "0", "%">>, Absolute |-> <<"+", "1", "0">>]
    /\ ret.out = <<"h", "o", "m", "e", ":", " ", "1", "1", "0", " ", "+", "1", "0", "m", "i", "n">>

-----------------------------------------------------------------------------
(* main().                                                                  *)

apiEnv == "GOOGLE_API_KEY"
workEnv == "TRAVEL_WORK_COORD"
homeEnv == "TRAVEL_HOME_COORD"
formatOutputEnv == "TRAVEL_FORMAT_OUTPUT"

\* log.Fatal, log.Fatalf: the diagnostic goes to standard error, the process
\* exits with status 1
Fatal(msg, name) ==
    /\ stderr' = [msg |-> msg, var |-> name]
    /\ exitCode' = 1
    /\ pc' = "exit"

\* a run-time panic: the process exits with status 2
Panic(msg) ==
    /\ stderr' = [msg |-> msg, var |-> None]
    /\ exitCode' = 2
    /\ pc' = "exit"

\* the environment variables a run can be started with
ApiKeys == {<<>>, <<"k", "e", "y">>}
WorkArgs ==
    {<<>>,
     << "w", "o", "r", "k", ",", "0", ",", "0" >>,
     BadExample}
HomeArgs ==
    {<<>>,
     << "h", "o", "m", "e", ",", "1", "0", ",", "1", "0" >>,
     NotANumberExample}
Formats ==
    {<<>>,
     << "{", "{", " ", ".", "D", "e", "s", "t", "i", "n", "a", "t", "i", "o",
       "n", ".", "N", "a", "m", "e", " ", "}", "}", " ", "{", "{", " ", ".",
       "N", "o", "T", "r", "a", "f", "f", "i", "c", " ", "}", "}", " ", "{",
       "{", " ", ".", "D", "e", "v", "i", "a", "t", "i", "o", "n", ".", "R",
       "e", "l", "a", "t", "i", "v", "e", " ", "}", "}", "%" >>,
     << "t", "o", " ", "{", "{", " ", ".", "T", "a", "r", "g", "e", "t", " ",
       "}", "}" >>,
     << "{", "{", " ", ".", "O", "r", "i", "g", "i", "n", ".", "N", "a", "m",
       "e" >>}

Init ==
    /\ pc = "start"
    /\ env \in [api : ApiKeys, work : WorkArgs, home : HomeArgs, format : Formats]
    /\ outTemplate = Nil
    /\ work = Nil /\ home = Nil
    /\ location = Nil
    /\ origin = Nil /\ destination = Nil
    /\ distanceResult = Nil
    /\ result = Nil
    /\ stdout = <<>>
    /\ stderr = Nil
    /\ exitCode = -1
    /\ stages = <<>>
    /\ args = <<>>
    /\ ret = Nil

\* LoadConfig with the home diagnostic naming workEnv
LoadConfig_HomeNamedWork ==
    /\ pc = "start"
    /\ stages' = Append(stages, "config")
    /\ IF env.api = <<>> THEN Fatal("missing api key", apiEnv)
       ELSE IF env.work = <<>> THEN Fatal("missing work coordinate", workEnv)
       ELSE IF env.home = <<>> THEN Fatal("missing home coordinate", workEnv)
       ELSE pc' = "parseFormat" /\ UNCHANGED <<stderr, exitCode>>
    /\ UNCHANGED <<env, outTemplate, work, home, location, origin, destination,
                   distanceResult, result, stdout, args, ret>>

\* the three required variables are read and tested in turn
LoadConfig ==
    /\ pc = "start"
    /\ stages' = Append(stages, "config")
    /\ IF env.api = <<>> THEN Fatal("missing api key", apiEnv)
       ELSE IF env.work = <<>> THEN Fatal("missing work coordinate", workEnv)
       ELSE IF env.home = <<>> THEN Fatal("missing home coordinate", homeEnv)
       ELSE pc' = "parseFormat" /\ UNCHANGED <<stderr, exitCode>>
    /\ UNCHANGED <<env, outTemplate, work, home, location, origin, destination,
                   distanceResult, result, stdout, args, ret>>

\* format := defaultFormat, replaced by a non-empty custom format
Format == IF env.format # <<>> THEN env.format ELSE defaultFormat

ParseFormat ==
    /\ pc = "parseFormat"
    /\ LET parsed == ParseTemplate(Format)
       IN  IF parsed.err # None
           THEN Fatal("invalid format", None) /\ UNCHANGED outTemplate
           ELSE /\ outTemplate' = [tree |-> parsed.tree]
                /\ pc' = "parseWork"
                /\ UNCHANGED <<stderr, exitCode>>
    /\ UNCHANGED <<env, work, home, location, origin, destination,
                   distanceResult, result, stdout, stages, args, ret>>

ParseWork ==
    /\ pc = "parseWork"
    /\ LET parsed == parseLatLngName(env.work)
       IN  IF parsed.err # None
           THEN Fatal(parsed.err, None) /\ UNCHANGED work
           ELSE /\ work' = parsed.val
                /\ pc' = "parseHome"
                /\ UNCHANGED <<stderr, exitCode>>
    /\ UNCHANGED <<env, outTemplate, home, location, origin, destination,
                   distanceResult, result, stdout, stages, args, ret>>

ParseHome ==
    /\ pc = "parseHome"
    /\ LET parsed == parseLatLngName(env.home)
       IN  IF parsed.err # None
           THEN Fatal(parsed.err, None) /\ UNCHANGED home
           ELSE /\ home' = parsed.val
                /\ pc' = "newClient"
                /\ UNCHANGED <<stderr, exitCode>>
    /\ UNCHANGED <<env, outTemplate, work, location, origin, destination,
                   distanceResult, result, stdout, stages, args, ret>>

\* maps.NewClient(maps.WithAPIKey(apiKey)): the key is not empty here; whether
\* the library accepts it depends on the library
NewClient ==
    /\ pc = "newClient"
    /\ \E accepted \in BOOLEAN :
          IF accepted
          THEN pc' = "geolocate" /\ UNCHANGED <<stderr, exitCode>>
          ELSE Fatal("maps: invalid API key", None)
    /\ UNCHANGED <<env, outTemplate, work, home, location, origin, destination,
                   distanceResult, result, stdout, stages, args, ret>>

\* the answers of the geolocation service
Locations == {LatLng(Dec(0, 0), Dec(0, 0)), LatLng(Dec(5, 0), Dec(5, 0)), LatLng(Dec(10, 0), Dec(10, 0))}

\* client.Geolocate: an error (the network, the five second timeout), or a
\* location
Geolocate ==
    /\ pc = "geolocate"
    /\ stages' = Append(stages, "geolocation")
    /\ \/ Fatal("failed to fetch geolocation", None) /\ UNCHANGED location
       \/ \E l \in Locations :
             /\ location' = l
             /\ pc' = "findDirection"
             /\ UNCHANGED <<stderr, exitCode>>
    /\ UNCHANGED <<env, outTemplate, work, home, origin, destination,
                   distanceResult, result, stdout, args, ret>>

FindDirection ==
    /\ pc = "findDirection"
    /\ LET direction == findDirection(work, home, location)
       IN  /\ origin' = direction.origin
           /\ destination' = direction.destination
    /\ pc' = "distanceMatrix"
    /\ UNCHANGED <<env, outTemplate, work, home, location, distanceResult,
                   result, stdout, stderr, exitCode, stages, args, ret>>

\* the answers of the distance matrix service: no row, a row without
\* elements, or one element; an element without a route has both durations 0
Responses ==
    {[Rows |-> <<>>], Response(<<>>)}
        \cup {Response(<<Element(w, n)>>) :
                 <<w, n>> \in {<<6600, 6000>>, <<6000, 6600>>, <<45, 5>>, <<0, 0>>, <<90, 0>>}}

\* client.DistanceMatrix: an error, or a response
DistanceMatrix ==
    /\ pc = "distanceMatrix"
    /\ stages' = Append(stages, "distance")
    /\ \/ Fatal("failed to fetch distance matrix", None) /\ UNCHANGED distanceResult
       \/ \E r \in Responses :
             /\ distanceResult' = r
             /\ pc' = "compute"
             /\ UNCHANGED <<stderr, exitCode>>
    /\ UNCHANGED <<env, outTemplate, work, home, location, origin, destination,
                   result, stdout, args, ret>>

\* result := &TravelResult{...}; Rows[0].Elements[0] of a response without a
\* row or an element is an index out of range
Compute ==
    /\ pc = "compute"
    /\ stages' = Append(stages, "compute")
    /\ IF distanceResult.Rows = <<>> \/ distanceResult.Rows[1].Elements = <<>>
       THEN Panic("index out of range") /\ UNCHANGED result
       ELSE /\ \E withTraffic \in IntOutcomes(Minutes(getWithTrafficDuration(distanceResult))),
                  noTraffic \in IntOutcomes(Minutes(getNoTrafficeDuration(distanceResult))),
                  deviation \in newDeviation(distanceResult) :
                    result' = TravelResult(origin, destination, withTraffic, noTraffic, deviation)
            /\ pc' = "render"
            /\ UNCHANGED <<stderr, exitCode>>
    /\ UNCHANGED <<env, outTemplate, work, home, location, origin, destination,
                   distanceResult, stdout, args, ret>>

\* outTemplate.Execute(os.Stdout, result), and the end of main
Render ==
    /\ pc = "render"
    /\ stages' = Append(stages, "render")
    /\ LET executed == Execute(outTemplate.tree, TravelResultValue(result), <<>>)
       IN  /\ stdout' = stdout \o executed.out
           /\ IF executed.err # None
              THEN Fatal("failed to execute template", None)
              ELSE /\ exitCode' = 0
                   /\ pc' = "exit"
                   /\ UNCHANGED stderr
    /\ UNCHANGED <<env, outTemplate, work, home, location, origin, destination,
                   distanceResult, result, args, ret>>

Next ==
    \/ LoadConfig
    \/ ParseFormat
    \/ ParseWork
    \/ ParseHome
    \/ NewClient
    \/ Geolocate
    \/ FindDirection
    \/ DistanceMatrix
    \/ Compute
    \/ Render

Spec == Init /\ [][Next]_vars

-----------------------------------------------------------------------------
(* Properties of a run.                                                     *)

StageOrder == <<"config", "geolocation", "distance", "compute", "render">>

IsPrefix(a, b) == Len(a) <= Len(b) /\ a = SubSeq(b, 1, Len(a))

ConfigDiagnostics ==
    {"missing api key", "missing work coordinate", "missing home coordinate",
     "invalid format", "invalid format, must contain 2 ','", "failed to parse name",
     "maps: invalid LatLng", "strconv.ParseFloat"}

\* the stages run in their order, the first failure ends the process with a
\* non-zero status, and a failure of the configuration is followed by no
\* upstream call
FailFast ==
    /\ IsPrefix(stages, StageOrder)
    /\ stderr # Nil => pc = "exit" /\ exitCode \notin {-1, 0}
    /\ pc = "exit" /\ stderr = Nil => exitCode = 0 /\ stages = StageOrder
    /\ stderr # Nil /\ stderr.msg \in ConfigDiagnostics =>
         stages = <<"config">> /\ location = Nil /\ distanceResult = Nil

\* C9: the stages run strictly in the order configuration, geolocation,
\* distance, compute, render; the first failing stage ends the process with a
\* non-zero exit and no later stage; standard output receives text only in a
\* run that ends with exit code 0.
C9_FailFastCleanStdout ==
    /\ FailFast
    /\ stdout # <<>> => exitCode = 0

HasElement ==
    /\ distanceResult # Nil
    /\ distanceResult.Rows # <<>>
    /\ distanceResult.Rows[1].Elements # <<>>

\* C3: when the duration without traffic is 0 seconds the deviation is not
\* computed: no TravelResult is built or rendered, nothing derived from an
\* infinite or NaN value is formatted, and the run ends with an error.
C3_ZeroDurationFails ==
    HasElement /\ getNoTrafficeDuration(distanceResult) = 0 =>
        /\ result = Nil
        /\ stdout = <<>>
        /\ pc = "exit" => exitCode \notin {-1, 0}

Missing ==
    {name \in {apiEnv, workEnv, homeEnv} :
        \/ name = apiEnv /\ env.api = <<>>
        \/ name = workEnv /\ env.work = <<>>
        \/ name = homeEnv /\ env.home = <<>>}

\* C10: if a required variable (API key, work coordinate, home coordinate) is
\* unset or empty, the process exits non-zero with a diagnostic naming a
\* variable that is missing; an unset or empty format variable causes no
\* error and selects the default template.
C10_MissingVariable ==
    /\ pc # "start" /\ Missing # {} =>
         /\ pc = "exit"
         /\ exitCode \notin {-1, 0}
         /\ stderr # Nil /\ stderr.var \in Missing
         /\ stages = <<"config">>
         /\ stdout = <<>>
    /\ env.format = <<>> =>
         /\ stderr # Nil => stderr.msg \notin {"invalid format", "failed to execute template"}
         /\ pc \in {"parseWork", "parseHome", "newClient", "geolocate"} => outTemplate # Nil
         /\ exitCode = 0 =>
              stdout = result.Origin.Name \o <<":", " ">> \o FormatInt(result.WithTraffic)
                          \o <<" ">> \o result.Deviation.Absolute \o <<"m", "i", "n">>

C10_Witness ==
    /\ pc = "exit"
    /\ env.api # <<>> /\ env.work # <<>> /\ env.home = <<>>
    /\ env.format = <<>>
    /\ exitCode = 1
    /\ stderr.var = homeEnv

=============================================================================
